---------------------------- MODULE Spec2Model ----------------------------
(***************************************************************************)
(* A model of tools/tex_to_html.py: the line-oriented pass that turns a    *)
(* constrained LaTeX manuscript into a Document (title, Books, Sayings,    *)
(* paragraphs), the HTML rendering of that Document, the slug derivation   *)
(* and the batch driver.                                                   *)
(*                                                                         *)
(* Strings are sequences of characters (one-character strings; Backtick is *)
(* written by name), so that strip, lower,                                 *)
(* the regular expressions and the joins are computed character by         *)
(* character as the Python does.                                           *)
(*                                                                         *)
(* Reading of the source.  The file's indentation is inconsistent (lines   *)
(* 28-56, 87, 124, 131 and 135-140 are shifted right).  The model reads it *)
(* as follows:                                                             *)
(*   - flush_block_into_saying is the one-argument definition of lines     *)
(*     30-56: it is the one every call site (124, 131, 158) uses;          *)
(*   - current_saying starts as None (line 87 is its only assignment       *)
(*     besides line 135) and start_new_book does not change the            *)
(*     current_saying of tex_to_html: it declares only current_book        *)
(*     nonlocal (line 83), so an assignment inside it binds a local;       *)
(*   - the creation of the Saying (lines 135-140) is not under the         *)
(*     test of current_book of line 133: the keys of the dictionary stand  *)
(*     in the column of the assignment, which shows the statement was      *)
(*     shifted as a whole.                                                 *)
(***************************************************************************)
EXTENDS Naturals, Sequences, FiniteSets

(***************************************************************************)
(* Bounds of the model.                                                    *)
(***************************************************************************)
\* longest input drawn over the whole line alphabet
MaxFront == 3
\* longest main-matter body (lines after a leading \mainmatter line)
MaxBody == 5
\* longest text of a Saying (lines after \mainmatter and a \section line)
MaxText == 5
\* longest string given to slugify
MaxSlugLen == 4
\* longest argument list given to main
MaxArgs == 3

(***************************************************************************)
(* Python string operations on character sequences.                        *)
(***************************************************************************)
SeqsUpTo(S, n) == UNION {[1..k -> S] : k \in 0..n}

IsSpace(c) == c \in {" ", "\t"}

RECURSIVE LStrip(_)
LStrip(s) == IF s # <<>> /\ IsSpace(Head(s)) THEN LStrip(Tail(s)) ELSE s

RECURSIVE RStrip(_)
RStrip(s) ==
    IF s # <<>> /\ IsSpace(s[Len(s)]) THEN RStrip(SubSeq(s, 1, Len(s) - 1)) ELSE s

Strip(s) == LStrip(RStrip(s))

RECURSIVE LStripChar(_, _)
LStripChar(s, c) == IF s # <<>> /\ Head(s) = c THEN LStripChar(Tail(s), c) ELSE s

RECURSIVE RStripChar(_, _)
RStripChar(s, c) ==
    IF s # <<>> /\ s[Len(s)] = c THEN RStripChar(SubSeq(s, 1, Len(s) - 1), c) ELSE s

StripChar(s, c) == LStripChar(RStripChar(s, c), c)

StartsWith(s, p) == Len(s) >= Len(p) /\ SubSeq(s, 1, Len(p)) = p

EndsWith(s, p) == Len(s) >= Len(p) /\ SubSeq(s, Len(s) - Len(p) + 1, Len(s)) = p

\* the positions at which p occurs in s
Occurrences(s, p) ==
    {i \in 1..Len(s) : i + Len(p) - 1 <= Len(s) /\ SubSeq(s, i, i + Len(p) - 1) = p}

Contains(s, p) == p = <<>> \/ Occurrences(s, p) # {}

Min(S) == CHOOSE x \in S : \A y \in S : x <= y

\* str.replace(old, new): leftmost, non-overlapping
RECURSIVE Replace(_, _, _)
Replace(s, old, new) ==
    IF s = <<>> THEN <<>>
    ELSE IF StartsWith(s, old)
         THEN new \o Replace(SubSeq(s, Len(old) + 1, Len(s)), old, new)
         ELSE <<Head(s)>> \o Replace(Tail(s), old, new)

\* sep.join(parts)
RECURSIVE Join(_, _)
Join(sep, parts) ==
    IF parts = <<>> THEN <<>>
    ELSE IF Len(parts) = 1 THEN parts[1]
    ELSE parts[1] \o sep \o Join(sep, Tail(parts))

UpperCase == <<"A","B","C","D","E","F","G","H","I","J","K","L","M",
               "N","O","P","Q","R","S","T","U","V","W","X","Y","Z">>
LowerCase == <<"a","b","c","d","e","f","g","h","i","j","k","l","m",
               "n","o","p","q","r","s","t","u","v","w","x","y","z">>
Digits == <<"0","1","2","3","4","5","6","7","8","9">>

LowerChar(c) ==
    IF \E i \in 1..26 : UpperCase[i] = c
    THEN LowerCase[CHOOSE i \in 1..26 : UpperCase[i] = c]
    ELSE c

\* str.lower()
Lower(s) == [i \in 1..Len(s) |-> LowerChar(s[i])]

\* the character class [a-z0-9]
IsLowerAlnum(c) ==
    \/ \E i \in 1..26 : LowerCase[i] = c
    \/ \E i \in 1..10 : Digits[i] = c

\* str(n) for a natural number
RECURSIVE Str(_)
Str(n) == IF n < 10 THEN <<Digits[n + 1]>> ELSE Str(n \div 10) \o <<Digits[(n % 10) + 1]>>

(***************************************************************************)
(* slugify (lines 11-15).                                                  *)
(***************************************************************************)
\* re.sub(r"[^a-z0-9]+", "-", s)
RECURSIVE DropNonAlnum(_)
DropNonAlnum(s) ==
    IF s # <<>> /\ ~IsLowerAlnum(Head(s)) THEN DropNonAlnum(Tail(s)) ELSE s

RECURSIVE SubNonAlnumRuns(_)
SubNonAlnumRuns(s) ==
    IF s = <<>> THEN <<>>
    ELSE IF IsLowerAlnum(Head(s)) THEN <<Head(s)>> \o SubNonAlnumRuns(Tail(s))
    ELSE <<"-">> \o SubNonAlnumRuns(DropNonAlnum(s))

\* re.sub(r"-+", "-", s)
RECURSIVE SubHyphenRuns(_)
SubHyphenRuns(s) ==
    IF s = <<>> THEN <<>>
    ELSE IF Head(s) = "-" THEN <<"-">> \o SubHyphenRuns(LStripChar(s, "-"))
    ELSE <<Head(s)>> \o SubHyphenRuns(Tail(s))

SlugFallback == <<"s","a","y","i","n","g">>

\* the hyphens trimmed before the runs are replaced, not after
slugifyTrimFirst(title) ==
    LET s1 == StripChar(Lower(Strip(title)), "-")
        s2 == SubNonAlnumRuns(s1)
        s3 == SubHyphenRuns(s2)
    IN  IF s3 = <<>> THEN SlugFallback ELSE s3

slugify(title) ==
    LET s1 == Lower(Strip(title))
        s2 == SubNonAlnumRuns(s1)
        s3 == StripChar(SubHyphenRuns(s2), "-")
    IN  IF s3 = <<>> THEN SlugFallback ELSE s3

(***************************************************************************)
(* The literals of the source.                                             *)
(***************************************************************************)
TexBeginTitlepage == <<"\\","b","e","g","i","n","{","t","i","t","l","e","p","a","g","e","}">>
TexEndTitlepage == <<"\\","e","n","d","{","t","i","t","l","e","p","a","g","e","}">>
TexHuge == <<"\\","H","u","g","e">>
TexTextscWord == <<"t","e","x","t","s","c">>
TexTextscOpen == <<"\\","t","e","x","t","s","c","{">>
SubtitleCue1 == <<"T","h","e"," ","8","1"," ","S","a","y","i","n","g","s"," ","o","f">>
SubtitleCue2 == <<"B","o","o","k"," ","o","f"," ","A","w","a","k","e","n","i","n","g">>
SubtitleCue3 == <<"S","u","t","t","a","s"," ","o","f"," ","t","h","e"," ","L","i","v","i","n","g"," ","B","u","d","d","h","a">>
TexMainMatter == <<"\\","m","a","i","n","m","a","t","t","e","r">>
TexChapterOpen == <<"\\","c","h","a","p","t","e","r","{">>
TexSectionOpen == <<"\\","s","e","c","t","i","o","n","{">>
TexOrnament == <<"\\","o","r","n","a","m","e","n","t">>
TexBackMatter == <<"%"," ","-","-","-"," ","B","A","C","K"," ","M","A","T","T","E","R"," ","-","-","-">>
TexLinebreak == <<"\\","\\">>
HtmlBr == <<"<","b","r",">">>
HtmlSuffix == <<".","h","t","m","l">>
TexSuffix == <<".","t","e","x">>

(***************************************************************************)
(* The regular expressions of the pass.                                    *)
(***************************************************************************)
\* ([^}]*)\} from position `from` of s: <<group>>, or <<>> when no "}" follows
BraceGroup(s, from) ==
    LET close == {j \in from..Len(s) : s[j] = "}"}
    IN  IF close = {} THEN <<>> ELSE <<SubSeq(s, from, Min(close) - 1)>>

\* CHAPTER_RE.match(line) and SECTION_RE.match(line): <<group 1>>, or <<>>
DirectiveMatch(open, line) ==
    IF StartsWith(line, open) THEN BraceGroup(line, Len(open) + 1) ELSE <<>>

ChapterMatch(line) == DirectiveMatch(TexChapterOpen, line)

SectionMatch(line) == DirectiveMatch(TexSectionOpen, line)

\* re.findall(r"\\textsc\{([^}]*)\}", line)
RECURSIVE FindAllTextsc(_)
FindAllTextsc(s) ==
    LET occ == Occurrences(s, TexTextscOpen)
    IN  IF occ = {} THEN <<>>
        ELSE LET i == Min(occ)
                 g == BraceGroup(s, i + Len(TexTextscOpen))
             IN  IF g = <<>> THEN <<>>
                 ELSE g \o FindAllTextsc(
                          SubSeq(s, i + Len(TexTextscOpen) + Len(g[1]) + 1, Len(s)))

\* re.search(r"\{([^}]*)\}", line): <<group 1>>, or <<>>
SearchBraces(s) ==
    LET open == {i \in 1..Len(s) : s[i] = "{"}
    IN  IF open = {} THEN <<>> ELSE BraceGroup(s, Min(open) + 1)

\* re.sub(r"\\\\\s*$", "", s)
SubTrailingLinebreak(s) ==
    IF EndsWith(RStrip(s), TexLinebreak)
    THEN SubSeq(s, 1, Len(RStrip(s)) - Len(TexLinebreak))
    ELSE s

\* .replace("``", "\"").replace("''", "\"")
DoubleQuote == "\""
Apostrophe == "'"
\* the backquote character (written by name: the parser does not read it in a string)
Backtick == "backquote"

NormalizeQuotes(s) ==
    Replace(Replace(s, <<Backtick, Backtick>>, <<DoubleQuote>>),
            <<Apostrophe, Apostrophe>>, <<DoubleQuote>>)

(***************************************************************************)
(* The paragraphs flush_block_into_saying makes of the accumulated lines   *)
(* (lines 36-54).                                                          *)
(***************************************************************************)
RECURSIVE ParagraphLoop(_, _, _)
ParagraphLoop(block, paragraphs, buff) ==
    IF block = <<>>
    THEN IF buff # <<>> THEN Append(paragraphs, Strip(Join(HtmlBr, buff))) ELSE paragraphs
    ELSE LET stripped == RStrip(Head(block))
             cleaned  == NormalizeQuotes(SubTrailingLinebreak(stripped))
         IN  IF stripped = <<>>
             THEN IF buff # <<>>
                  THEN ParagraphLoop(Tail(block),
                                     Append(paragraphs, Strip(Join(HtmlBr, buff))), <<>>)
                  ELSE ParagraphLoop(Tail(block), paragraphs, buff)
             ELSE IF Strip(cleaned) = TexOrnament
                  THEN ParagraphLoop(Tail(block), paragraphs, buff)
                  ELSE ParagraphLoop(Tail(block), paragraphs, Append(buff, cleaned))

Paragraphs(block) == ParagraphLoop(block, <<>>, <<>>)

(***************************************************************************)
(* The inputs: lines drawn from a small alphabet of the markup.            *)
(***************************************************************************)
LineTitle    == TexHuge \o TexTextscOpen \o <<"T", "}">>
LineSubtitle == <<"{">> \o SubtitleCue2 \o <<"}">>
LineChapter  == TexChapterOpen \o <<"B", "}">>
LineSection  == TexSectionOpen \o <<"S", "}">>
LineBlank    == <<>>
LineTextA    == <<"a">> \o TexLinebreak
LineTextB    == <<Backtick, Backtick, "b">>
LineBreakOnly == TexLinebreak

\* what a reader sees of the two text lines
TextA == <<"a">>
TextB == <<DoubleQuote, "b">>

BodyAlphabet ==
    {LineChapter, LineSection, TexOrnament, TexBackMatter,
     LineBlank, LineTextA, LineTextB}

FullAlphabet ==
    BodyAlphabet \cup
    {TexBeginTitlepage, TexEndTitlepage, LineTitle, LineSubtitle, TexMainMatter,
     LineBreakOnly}

TextAlphabet == {TexOrnament, LineBlank, LineTextA, LineTextB, LineBreakOnly}

\* any document of at most MaxFront lines; the documents that open the main
\* matter on their first line and go on for at most MaxBody lines; and the
\* documents of one Saying with at most MaxText lines of text
Inputs ==
    SeqsUpTo(FullAlphabet, MaxFront)
    \cup {<<TexMainMatter>> \o b : b \in SeqsUpTo(BodyAlphabet, MaxBody)}
    \cup {<<TexMainMatter, LineSection>> \o t : t \in SeqsUpTo(TextAlphabet, MaxText)}

TexPath == <<"d", "o", "c">> \o TexSuffix

\* Path.stem: the name without its last suffix
Stem(path) ==
    LET dots == {i \in 2..Len(path) : path[i] = "."}
    IN  IF dots = {} \/ (CHOOSE m \in dots : \A d \in dots : d <= m) = Len(path) THEN path
        ELSE SubSeq(path, 1, (CHOOSE m \in dots : \A d \in dots : d <= m) - 1)

(***************************************************************************)
(* The state of one call of tex_to_html.                                   *)
(***************************************************************************)
VARIABLES
    tex_path,            \* the source file's name
    lines,               \* its lines (line 19)
    idx,                 \* the position of the for loop of line 91
    pc,                  \* "loop", "post" (after the loop), "render", "done"
    title, subtitle, in_titlepage, in_front_matter, say_num,
    books,               \* the finished Books
    current_book,        \* <<>> for None, else <<book>>
    current_saying,      \* <<>> for None, else <<[book, pos]>>: the Saying it refers to
    current_block_lines, \* the accumulation buffer
    parts                \* the HTML written to html_path, <<>> before it is written

(***************************************************************************)
(* The state of one call of main, and of the calls of slugify.             *)
(***************************************************************************)
VARIABLES
    argv,       \* the arguments
    files,      \* the names of the files in the current directory when main starts
    written,    \* the names of the files tex_to_html has written since
    main_pc,    \* "start", "files" (the loop of line 211), "returned"
    tex_files,  \* lines 204 and 209
    file_idx,   \* the position of the loop of line 211
    stdout,     \* the paths of the "Wrote" lines
    stderr,     \* the messages written to sys.stderr
    status,     \* <<>> until main returns, then <<its return value>>
    slugs       \* a title, followed by the results of slugify applied over and over

pass_vars == <<tex_path, lines, idx, pc, title, subtitle, in_titlepage,
               in_front_matter, say_num, books, current_book, current_saying,
               current_block_lines, parts>>

main_vars == <<argv, files, written, main_pc, tex_files, file_idx, stdout, stderr,
               status>>

vars == <<pass_vars, main_vars, slugs>>

\* current_book is appended to books when the next Book starts or the pass ends:
\* until then the Document's Books are books followed by current_book
AllBooks == IF pc \in {"loop", "post"} THEN books \o current_book ELSE books

InitPass ==
    /\ tex_path = TexPath
    /\ idx = 1
    /\ title = <<>>
    /\ subtitle = <<>>
    /\ in_titlepage = FALSE
    /\ in_front_matter = TRUE
    /\ say_num = 0
    /\ books = <<>>
    /\ current_book = <<>>
    /\ current_saying = <<>>
    /\ current_block_lines = <<>>
    /\ parts = <<>>

\* no call of main
NoMain ==
    /\ argv = <<>>
    /\ files = {}
    /\ written = {}
    /\ main_pc = "none"
    /\ tex_files = <<>>
    /\ file_idx = 1
    /\ stdout = <<>>
    /\ stderr = <<>>
    /\ status = <<>>

\* no call of slugify outside the rendering
NoSlugs == slugs = <<>>

\* no call of tex_to_html
NoPass == InitPass /\ lines = <<>> /\ pc = "none"

Init == InitPass /\ lines \in Inputs /\ pc = "loop" /\ NoMain /\ NoSlugs

(***************************************************************************)
(* flush_block_into_saying(saying) (lines 30-56): the Books after the      *)
(* call.  The buffer is empty after it in every case.                      *)
(***************************************************************************)
Flushed(saying) ==
    IF current_block_lines = <<>> \/ saying = <<>>
    THEN books \o current_book
    ELSE [books \o current_book EXCEPT
             ![saying[1].book].sayings[saying[1].pos].paragraphs =
                 Paragraphs(current_block_lines)]

\* the Book start_new_book makes (line 86)
NewBook(ch_title) == [title |-> ch_title, preface |-> <<>>, sayings |-> <<>>]

(***************************************************************************)
(* The for loop of lines 91-154: the branch the line at idx takes, in the  *)
(* order of the tests.                                                     *)
(***************************************************************************)
InLoop == pc = "loop" /\ idx <= Len(lines)

\* the tests without the one of line 118
BranchNoFrontMatter(line) ==
    IF StartsWith(Strip(line), TexBeginTitlepage) THEN "begin_titlepage"
    ELSE IF StartsWith(Strip(line), TexEndTitlepage) THEN "end_titlepage"
    ELSE IF in_titlepage THEN "titlepage"
    ELSE IF StartsWith(Strip(line), TexMainMatter) THEN "mainmatter"
    ELSE IF ChapterMatch(line) # <<>> THEN "chapter"
    ELSE IF SectionMatch(line) # <<>> THEN "section"
    ELSE IF Strip(line) = TexOrnament THEN "ornament"
    ELSE IF StartsWith(Strip(line), TexBackMatter) THEN "back_matter"
    ELSE "content"

Branch(line) ==
    IF StartsWith(Strip(line), TexBeginTitlepage) THEN "begin_titlepage"
    ELSE IF StartsWith(Strip(line), TexEndTitlepage) THEN "end_titlepage"
    ELSE IF in_titlepage THEN "titlepage"
    ELSE IF StartsWith(Strip(line), TexMainMatter) THEN "mainmatter"
    ELSE IF in_front_matter THEN "front_matter"
    ELSE IF ChapterMatch(line) # <<>> THEN "chapter"
    ELSE IF SectionMatch(line) # <<>> THEN "section"
    ELSE IF Strip(line) = TexOrnament THEN "ornament"
    ELSE IF StartsWith(Strip(line), TexBackMatter) THEN "back_matter"
    ELSE "content"

Takes(branch) == InLoop /\ Branch(lines[idx]) = branch

\* lines 95-97
BeginTitlepage ==
    /\ Takes("begin_titlepage")
    /\ in_titlepage' = TRUE
    /\ idx' = idx + 1
    /\ UNCHANGED <<main_vars, slugs, tex_path, lines, pc, title, subtitle, in_front_matter, say_num,
                   books, current_book, current_saying, current_block_lines, parts>>

\* lines 98-100
EndTitlepage ==
    /\ Takes("end_titlepage")
    /\ in_titlepage' = FALSE
    /\ idx' = idx + 1
    /\ UNCHANGED <<main_vars, slugs, tex_path, lines, pc, title, subtitle, in_front_matter, say_num,
                   books, current_book, current_saying, current_block_lines, parts>>

\* lines 101-112
TitlepageLine ==
    /\ Takes("titlepage")
    /\ LET line == lines[idx]
           m    == FindAllTextsc(line)
           sub  == SearchBraces(line)
       IN  /\ title' = IF /\ Contains(line, TexHuge)
                          /\ Contains(line, TexTextscWord)
                          /\ m # <<>>
                       THEN Join(<<" ">>, m)
                       ELSE title
           /\ subtitle' = IF /\ \/ Contains(line, SubtitleCue1)
                                \/ Contains(line, SubtitleCue2)
                                \/ Contains(line, SubtitleCue3)
                             /\ sub # <<>>
                          THEN Strip(sub[1])
                          ELSE subtitle
    /\ idx' = idx + 1
    /\ UNCHANGED <<main_vars, slugs, tex_path, lines, pc, in_titlepage, in_front_matter, say_num,
                   books, current_book, current_saying, current_block_lines, parts>>

\* lines 115-117
MainMatter ==
    /\ Takes("mainmatter")
    /\ in_front_matter' = FALSE
    /\ idx' = idx + 1
    /\ UNCHANGED <<main_vars, slugs, tex_path, lines, pc, title, subtitle, in_titlepage, say_num,
                   books, current_book, current_saying, current_block_lines, parts>>

\* lines 118-119
FrontMatterLine ==
    /\ Takes("front_matter")
    /\ idx' = idx + 1
    /\ UNCHANGED <<main_vars, slugs, tex_path, lines, pc, title, subtitle, in_titlepage,
                   in_front_matter, say_num, books, current_book, current_saying,
                   current_block_lines, parts>>

\* a chapter marker that restarts the numbering of the Sayings
ChapterLineRestart ==
    /\ Takes("chapter")
    /\ books' = Flushed(current_saying)
    /\ current_block_lines' = <<>>
    /\ current_book' = <<NewBook(Strip(ChapterMatch(lines[idx])[1]))>>
    /\ say_num' = 0
    /\ idx' = idx + 1
    /\ UNCHANGED <<main_vars, slugs, tex_path, lines, pc, title, subtitle, in_titlepage,
                   in_front_matter, current_saying, parts>>

\* lines 121-126, with start_new_book (lines 82-87)
ChapterLine ==
    /\ Takes("chapter")
    /\ books' = Flushed(current_saying)
    /\ current_block_lines' = <<>>
    /\ current_book' = <<NewBook(Strip(ChapterMatch(lines[idx])[1]))>>
    /\ idx' = idx + 1
    /\ UNCHANGED <<main_vars, slugs, tex_path, lines, pc, title, subtitle, in_titlepage,
                   in_front_matter, say_num, current_saying, parts>>

\* lines 128-141, with start_new_book("") when no Book is open
SectionLine ==
    /\ Takes("section")
    /\ LET fl     == Flushed(current_saying)
           book   == IF current_book = <<>> THEN NewBook(<<>>) ELSE fl[Len(fl)]
           saying == [num |-> say_num + 1,
                      title |-> Strip(SectionMatch(lines[idx])[1]),
                      paragraphs |-> <<>>]
       IN  /\ books' = SubSeq(fl, 1, Len(books))
           /\ current_book' = <<[book EXCEPT !.sayings = Append(@, saying)]>>
           /\ current_saying' =
                  <<[book |-> Len(books) + 1, pos |-> Len(book.sayings) + 1]>>
    /\ say_num' = say_num + 1
    /\ current_block_lines' = <<>>
    /\ idx' = idx + 1
    /\ UNCHANGED <<main_vars, slugs, tex_path, lines, pc, title, subtitle, in_titlepage,
                   in_front_matter, parts>>

\* an ornament line that ends the loop as the back-matter marker does
OrnamentLineEndsPass ==
    /\ InLoop /\ Branch(lines[idx]) = "ornament"
    /\ pc' = "post"
    /\ UNCHANGED <<main_vars, slugs, tex_path, lines, idx, title, subtitle, in_titlepage,
                   in_front_matter, say_num, books, current_book, current_saying,
                   current_block_lines, parts>>

\* lines 145-146
OrnamentLine ==
    /\ Takes("ornament")
    /\ idx' = idx + 1
    /\ UNCHANGED <<main_vars, slugs, tex_path, lines, pc, title, subtitle, in_titlepage,
                   in_front_matter, say_num, books, current_book, current_saying,
                   current_block_lines, parts>>

\* a back-matter marker that is skipped and does not end the loop
BackMatterContinue ==
    /\ InLoop /\ Branch(lines[idx]) = "back_matter"
    /\ idx' = idx + 1
    /\ UNCHANGED <<main_vars, slugs, tex_path, lines, pc, title, subtitle, in_titlepage,
                   in_front_matter, say_num, books, current_book, current_saying,
                   current_block_lines, parts>>

\* lines 149-150: break
BackMatterLine ==
    /\ Takes("back_matter")
    /\ pc' = "post"
    /\ UNCHANGED <<main_vars, slugs, tex_path, lines, idx, title, subtitle, in_titlepage,
                   in_front_matter, say_num, books, current_book, current_saying,
                   current_block_lines, parts>>

\* lines 153-154
ContentLine ==
    /\ Takes("content")
    /\ current_block_lines' =
           IF current_book # <<>> THEN Append(current_block_lines, lines[idx])
           ELSE current_block_lines
    /\ idx' = idx + 1
    /\ UNCHANGED <<main_vars, slugs, tex_path, lines, pc, title, subtitle, in_titlepage,
                   in_front_matter, say_num, books, current_book, current_saying,
                   parts>>

\* the for loop runs out of lines
EndOfInput ==
    /\ pc = "loop"
    /\ idx > Len(lines)
    /\ pc' = "post"
    /\ UNCHANGED <<main_vars, slugs, tex_path, lines, idx, title, subtitle, in_titlepage,
                   in_front_matter, say_num, books, current_book, current_saying,
                   current_block_lines, parts>>

\* lines 158-160: the last flush; the open Book joins books
FinishPass ==
    /\ pc = "post"
    /\ books' = Flushed(current_saying)
    /\ current_block_lines' = <<>>
    /\ pc' = "render"
    /\ UNCHANGED <<main_vars, slugs, tex_path, lines, idx, title, subtitle, in_titlepage,
                   in_front_matter, say_num, current_book, current_saying, parts>>

(***************************************************************************)
(* The rendering (lines 163-197).  The HTML is a sequence of elements,     *)
(* one for each line the source appends to parts.                          *)
(***************************************************************************)
El(tag, id, text) == [tag |-> tag, id |-> id, text |-> text]

Fixed(tag) == El(tag, <<>>, <<>>)

\* line 168
HeadTitle == El("title", <<>>, Stem(tex_path))

\* lines 174-177
TopHeading == El("h1", <<>>, IF title # <<>> THEN title ELSE Stem(tex_path))

RenderParagraphs(paragraphs) ==
    [i \in 1..Len(paragraphs) |-> El("p", <<>>, paragraphs[i])]

\* lines 185-191
RenderSaying(saying) ==
    <<El("h3",
         <<"s">> \o Str(saying.num) \o <<"-">> \o slugify(saying.title),
         Str(saying.num) \o <<".", " ">> \o saying.title)>>
    \o RenderParagraphs(saying.paragraphs)

RECURSIVE RenderSayings(_)
RenderSayings(sayings) ==
    IF sayings = <<>> THEN <<>>
    ELSE RenderSaying(Head(sayings)) \o RenderSayings(Tail(sayings))

\* lines 181-192
RECURSIVE RenderBooks(_)
RenderBooks(bs) ==
    IF bs = <<>> THEN <<>>
    ELSE (IF Head(bs).title # <<>> THEN <<El("h2", <<>>, Head(bs).title)>> ELSE <<>>)
         \o RenderSayings(Head(bs).sayings)
         \o <<Fixed("hr")>>
         \o RenderBooks(Tail(bs))

Html ==
    <<Fixed("doctype"), Fixed("html"), Fixed("head"), Fixed("meta charset"),
      HeadTitle, Fixed("meta viewport"), Fixed("style"), Fixed("/head"),
      Fixed("body"), TopHeading>>
    \o (IF subtitle # <<>> THEN <<El("h2", <<>>, subtitle)>> ELSE <<>>)
    \o RenderBooks(books)
    \o <<Fixed("/body"), Fixed("/html")>>

Render ==
    /\ pc = "render"
    /\ parts' = Html
    /\ pc' = "done"
    /\ UNCHANGED <<main_vars, slugs, tex_path, lines, idx, title, subtitle, in_titlepage,
                   in_front_matter, say_num, books, current_book, current_saying,
                   current_block_lines>>

Next ==
    \/ BeginTitlepage
    \/ EndTitlepage
    \/ TitlepageLine
    \/ MainMatter
    \/ FrontMatterLine
    \/ ChapterLine
    \/ SectionLine
    \/ OrnamentLine
    \/ BackMatterLine
    \/ ContentLine
    \/ EndOfInput
    \/ FinishPass
    \/ Render

Spec == Init /\ [][Next]_vars

(***************************************************************************)
(* main (lines 200-220).  The files of the current directory are known by  *)
(* name; tex_to_html's effect on them is the file it writes.               *)
(***************************************************************************)
NameA     == <<"a">> \o TexSuffix
NameB     == <<"b">> \o TexSuffix
NameAHtml == <<"a">> \o HtmlSuffix

PathNames == {NameA, NameB, NameAHtml}

\* the characters of the names, in the order of their code points
CodeOrder == <<".", "a", "b", "e", "h", "l", "m", "t", "x">>

Code(c) == CHOOSE i \in 1..Len(CodeOrder) : CodeOrder[i] = c

RECURSIVE StrLess(_, _)
StrLess(a, b) ==
    IF b = <<>> THEN FALSE
    ELSE IF a = <<>> THEN TRUE
    ELSE IF Head(a) = Head(b) THEN StrLess(Tail(a), Tail(b))
    ELSE Code(Head(a)) < Code(Head(b))

\* sorted(S)
RECURSIVE Sorted(_)
Sorted(S) ==
    IF S = {} THEN <<>>
    ELSE LET least == CHOOSE x \in S : \A y \in S \ {x} : StrLess(x, y)
         IN  <<least>> \o Sorted(S \ {least})

\* tex_path.exists()
Exists(path) == path \in files \cup written

\* Path(".").glob("*.tex")
GlobTex == {f \in files \cup written : EndsWith(f, TexSuffix)}

\* lines 216-217
HtmlPath(path) == Stem(path) \o HtmlSuffix

InitMain ==
    /\ NoPass
    /\ NoSlugs
    /\ argv \in SeqsUpTo(PathNames, MaxArgs)
    /\ files \in SUBSET PathNames
    /\ written = {}
    /\ main_pc = "start"
    /\ tex_files = <<>>
    /\ file_idx = 1
    /\ stdout = <<>>
    /\ stderr = <<>>
    /\ status = <<>>

\* lines 202-207, no file found: return 1
NoFilesFound ==
    /\ main_pc = "start"
    /\ argv = <<>>
    /\ GlobTex = {}
    /\ stderr' = Append(stderr, [msg |-> "No .tex files found.", path |-> <<>>])
    /\ status' = <<1>>
    /\ main_pc' = "returned"
    /\ UNCHANGED <<pass_vars, slugs, argv, files, written, tex_files, file_idx, stdout>>

\* lines 202-209
CollectFiles ==
    /\ main_pc = "start"
    /\ argv = <<>> => GlobTex # {}
    /\ tex_files' = IF argv = <<>> THEN Sorted(GlobTex) ELSE argv
    /\ main_pc' = "files"
    /\ UNCHANGED <<pass_vars, slugs, argv, files, written, file_idx, stdout, stderr,
                   status>>

InFiles == main_pc = "files" /\ file_idx <= Len(tex_files)

\* a missing file that ends the batch with status 1
SkipMissingAborts ==
    /\ InFiles
    /\ ~Exists(tex_files[file_idx])
    /\ stderr' = Append(stderr, [msg |-> "Skipping missing", path |-> tex_files[file_idx]])
    /\ status' = <<1>>
    /\ main_pc' = "returned"
    /\ UNCHANGED <<pass_vars, slugs, argv, files, written, tex_files, file_idx, stdout>>

\* lines 212-214
SkipMissing ==
    /\ InFiles
    /\ ~Exists(tex_files[file_idx])
    /\ stderr' = Append(stderr, [msg |-> "Skipping missing", path |-> tex_files[file_idx]])
    /\ file_idx' = file_idx + 1
    /\ UNCHANGED <<pass_vars, slugs, argv, files, written, main_pc, tex_files, stdout,
                   status>>

\* lines 215-219
Transform ==
    /\ InFiles
    /\ Exists(tex_files[file_idx])
    /\ written' = written \cup {HtmlPath(tex_files[file_idx])}
    /\ stdout' = Append(stdout, HtmlPath(tex_files[file_idx]))
    /\ file_idx' = file_idx + 1
    /\ UNCHANGED <<pass_vars, slugs, argv, files, main_pc, tex_files, stderr, status>>

\* line 220
ReturnZero ==
    /\ main_pc = "files"
    /\ file_idx > Len(tex_files)
    /\ status' = <<0>>
    /\ main_pc' = "returned"
    /\ UNCHANGED <<pass_vars, slugs, argv, files, written, tex_files, file_idx, stdout,
                   stderr>>

NextMain == NoFilesFound \/ CollectFiles \/ SkipMissing \/ Transform \/ ReturnZero

SpecMain == InitMain /\ [][NextMain]_vars

(***************************************************************************)
(* slugify applied to a title, and then to its own result.                 *)
(***************************************************************************)
SlugAlphabet == {"a", "B", "1", " ", "-", "!"}

InitSlug ==
    /\ NoPass
    /\ NoMain
    /\ \E x \in SeqsUpTo(SlugAlphabet, MaxSlugLen) : slugs = <<x>>

ApplySlugify ==
    /\ slugs # <<>>
    /\ Len(slugs) < 3
    /\ slugs' = Append(slugs, slugify(slugs[Len(slugs)]))
    /\ UNCHANGED <<pass_vars, main_vars>>

NextSlug == ApplySlugify

SpecSlug == InitSlug /\ [][NextSlug]_vars

(***************************************************************************)
(* The input as the specification describes it: the zones of a document    *)
(* and its markers, by position.                                           *)
(***************************************************************************)
IsBeginTitlepageAt(i) == StartsWith(Strip(lines[i]), TexBeginTitlepage)

IsEndTitlepageAt(i) == StartsWith(Strip(lines[i]), TexEndTitlepage) /\ ~IsBeginTitlepageAt(i)

\* line i lies inside a title-page block
InTitlepageAt(i) ==
    \E b \in 1..(i - 1) :
        /\ IsBeginTitlepageAt(b)
        /\ \A e \in (b + 1)..(i - 1) : ~IsEndTitlepageAt(e)

OutsideTitlepage(i) ==
    ~IsBeginTitlepageAt(i) /\ ~IsEndTitlepageAt(i) /\ ~InTitlepageAt(i)

IsMainMatterAt(i) == StartsWith(Strip(lines[i]), TexMainMatter) /\ OutsideTitlepage(i)

\* line i lies in main matter: after the first main-matter marker, outside a
\* title-page block, and no main-matter marker itself
InMainMatter(i) ==
    /\ ~StartsWith(Strip(lines[i]), TexMainMatter)
    /\ OutsideTitlepage(i)
    /\ \E m \in 1..(i - 1) : IsMainMatterAt(m)

\* the shapes of the directives
ChapterShape(i) == ChapterMatch(lines[i]) # <<>>

SectionShape(i) == SectionMatch(lines[i]) # <<>> /\ ~ChapterShape(i)

OrnamentShape(i) ==
    Strip(lines[i]) = TexOrnament /\ ~ChapterShape(i) /\ ~SectionShape(i)

BackMatterShape(i) ==
    /\ StartsWith(Strip(lines[i]), TexBackMatter)
    /\ ~ChapterShape(i) /\ ~SectionShape(i) /\ ~OrnamentShape(i)

IsChapterAt(i) == ChapterShape(i) /\ InMainMatter(i)

IsSectionAt(i) == SectionShape(i) /\ InMainMatter(i)

IsOrnamentAt(i) == OrnamentShape(i) /\ InMainMatter(i)

IsBackMatterAt(i) == BackMatterShape(i) /\ InMainMatter(i)

\* the position of the back-matter marker, Len(lines) + 1 when there is none
BackPos == Min({i \in 1..Len(lines) : IsBackMatterAt(i)} \cup {Len(lines) + 1})

HasBackMatter == BackPos <= Len(lines)

\* the section and chapter markers of main matter before position b
SectionsBefore(b) == {i \in 1..(b - 1) : IsSectionAt(i)}

ChaptersBefore(b) == {i \in 1..(b - 1) : IsChapterAt(i)}

\* the section markers of main matter before the back-matter marker
SectionMarkers == SectionsBefore(BackPos)

\* the Sayings of a list of Books, in document order
RECURSIVE SayingsOf(_)
SayingsOf(bs) == IF bs = <<>> THEN <<>> ELSE Head(bs).sayings \o SayingsOf(Tail(bs))

PassOver == pc \in {"render", "done"}

\* the paragraphs of the Document
DocParagraphs ==
    LET sayings == SayingsOf(AllBooks)
    IN  UNION {{sayings[j].paragraphs[k] : k \in 1..Len(sayings[j].paragraphs)} :
               j \in 1..Len(sayings)}

\* s.split(sep)
RECURSIVE Split(_, _)
Split(s, sep) ==
    IF Occurrences(s, sep) = {} THEN <<s>>
    ELSE LET i == Min(Occurrences(s, sep))
         IN  <<SubSeq(s, 1, i - 1)>> \o Split(SubSeq(s, i + Len(sep), Len(s)), sep)

\* what a reader sees of a line of text: its trailing line-break directive is
\* gone and its doubled quotes are one double-quote character
VisibleText(line) ==
    IF line = LineTextA THEN TextA
    ELSE IF line = LineTextB THEN TextB
    ELSE IF line = LineBreakOnly THEN <<>>
    ELSE line

C2_BackMatterStops ==
    LET back   == BackPos
        before == {VisibleText(lines[i]) : i \in {j \in 1..(back - 1) : InMainMatter(j)}}
        sections == Cardinality(SectionsBefore(back))
    IN  back <= Len(lines) =>
            /\ idx <= back
            /\ say_num <= sections
            /\ Len(SayingsOf(AllBooks)) <= sections
            /\ Len(AllBooks) <= Cardinality(ChaptersBefore(back)) + 1
            /\ \A p \in DocParagraphs :
                   LET pieces == Split(p, HtmlBr)
                   IN  \A k \in 1..Len(pieces) : pieces[k] \in before

\* the pass is over; a Saying with a paragraph stands before the back-matter
\* marker, and a directive or a text line the Saying does not have after it
C2_Witness ==
    /\ PassOver
    /\ HasBackMatter
    /\ DocParagraphs = {TextA}
    /\ \E i \in (BackPos + 1)..Len(lines) :
           lines[i] \in {LineSection, LineChapter, LineTextB}

\* no main-matter marker among the lines the loop has taken so far
NoMainMatterYet == \A i \in 1..(idx - 1) : i <= Len(lines) => ~IsMainMatterAt(i)

(***************************************************************************)
(* C9.  Until the main-matter marker has been seen, every line outside a   *)
(* title-page block is discarded: chapter, section, ornament, back-matter  *)
(* and text lines make no Book, no Saying and no paragraph text, do not    *)
(* advance the saying counter and do not end the pass.                     *)
(***************************************************************************)
C9_FrontMatterDiscarded ==
    (pc # "none" /\ NoMainMatterYet) =>
        /\ books = <<>>
        /\ current_book = <<>>
        /\ current_saying = <<>>
        /\ say_num = 0
        /\ current_block_lines = <<>>
        /\ pc # "loop" => idx > Len(lines)
        /\ \A k \in 1..Len(parts) : parts[k].tag \notin {"h3", "p", "hr"}

\* a document of a section marker, a back-matter marker and a text line, with
\* no main-matter marker, is read to its end and rendered
C9_Witness ==
    /\ pc = "done"
    /\ NoMainMatterYet
    /\ lines = <<LineSection, TexBackMatter, LineTextA>>

(***************************************************************************)
(* The text of a Saying in the input: the lines between its section marker *)
(* and the next structural marker.                                         *)
(***************************************************************************)
IsStructuralAt(i) ==
    (ChapterShape(i) \/ SectionShape(i) \/ BackMatterShape(i)) /\ InMainMatter(i)

\* the position of the structural marker that follows position m, or the end
RegionEnd(m) ==
    Min({i \in (m + 1)..Len(lines) : IsStructuralAt(i)} \cup {Len(lines) + 1})

IsBlankAt(i) == RStrip(lines[i]) = <<>> /\ InMainMatter(i)

\* a non-blank, non-ornament line of text
IsContentAt(i) ==
    /\ RStrip(lines[i]) # <<>>
    /\ ~ChapterShape(i) /\ ~SectionShape(i) /\ ~BackMatterShape(i) /\ ~OrnamentShape(i)
    /\ InMainMatter(i)

\* what a reader sees of the content lines from position a to position b
RECURSIVE RegionText(_, _)
RegionText(a, b) ==
    IF a > b THEN <<>>
    ELSE (IF IsContentAt(a) THEN <<VisibleText(lines[a])>> ELSE <<>>)
         \o RegionText(a + 1, b)

\* the content lines from a to b that open a paragraph: the first one, and
\* each one that a blank line parts from the content line before it
ParagraphStarts(a, b) ==
    {c \in a..b :
        /\ IsContentAt(c)
        /\ \A d \in a..(c - 1) :
               IsContentAt(d) => \E e \in (d + 1)..(c - 1) : IsBlankAt(e)}

\* the lines of the paragraphs, in order
RECURSIVE PiecesOf(_)
PiecesOf(paragraphs) ==
    IF paragraphs = <<>> THEN <<>>
    ELSE Split(Head(paragraphs), HtmlBr) \o PiecesOf(Tail(paragraphs))

\* the k-th section marker of main matter
NthSection(k) ==
    CHOOSE i \in SectionMarkers : Cardinality({j \in SectionMarkers : j <= i}) = k

(***************************************************************************)
(* C3.  The flush never attaches an empty paragraph to a Saying: every     *)
(* paragraph has non-zero length, also when a non-blank line becomes empty *)
(* once its trailing line-break directive is stripped.                     *)
(***************************************************************************)
C3_NoEmptyParagraph == \A p \in DocParagraphs : p # <<>>

C10_ClosedSayingsFrozen ==
    [][\A k \in 1..Len(AllBooks) : \A j \in 1..Len(AllBooks[k].sayings) :
           ~(k = Len(AllBooks) /\ j = Len(AllBooks[k].sayings)) =>
               AllBooks'[k].sayings[j].paragraphs = AllBooks[k].sayings[j].paragraphs]_vars

ElementText(tag) == parts[CHOOSE k \in 1..Len(parts) : parts[k].tag = tag].text

(***************************************************************************)
(* C6.  In the rendered HTML the title element of the head is the          *)
(* Document's title when the title page gave one and the source file's     *)
(* base name otherwise, and it equals the text of the top-level heading.   *)
(***************************************************************************)
C6_HeadTitleIsDocumentTitle ==
    pc = "done" =>
        /\ ElementText("title") = (IF title # <<>> THEN title ELSE Stem(tex_path))
        /\ ElementText("title") = ElementText("h1")

\* the step flushes a non-empty buffer into the current Saying
FlushStep ==
    /\ \/ pc = "post"
       \/ pc = "loop" /\ idx <= Len(lines) /\ (IsChapterAt(idx) \/ IsSectionAt(idx))
    /\ current_saying # <<>>
    /\ current_block_lines # <<>>

\* the structural marker the accumulated text follows
LastMarker == CHOOSE m \in 1..(idx - 1) :
                 /\ IsChapterAt(m) \/ IsSectionAt(m)
                 /\ \A n \in (m + 1)..(idx - 1) : ~(IsChapterAt(n) \/ IsSectionAt(n))

RECURSIVE ExistsWhenReached(_)
ExistsWhenReached(i) ==
    \/ argv[i] \in files
    \/ \E j \in 1..(i - 1) : ExistsWhenReached(j) /\ HtmlPath(argv[j]) = argv[i]

RECURSIVE ExpectedWrote(_)
ExpectedWrote(i) ==
    IF i = 0 THEN <<>>
    ELSE ExpectedWrote(i - 1)
         \o (IF ExistsWhenReached(i) THEN <<HtmlPath(argv[i])>> ELSE <<>>)

RECURSIVE ExpectedSkipped(_)
ExpectedSkipped(i) ==
    IF i = 0 THEN <<>>
    ELSE ExpectedSkipped(i - 1)
         \o (IF ExistsWhenReached(i) THEN <<>> ELSE <<argv[i]>>)

(***************************************************************************)
(* C7.  main with one or more arguments reports and skips every argument   *)
(* that does not exist, transforms every one that exists, in argument      *)
(* order, also after a missing one, and returns 0; it returns 1 only with  *)
(* no argument and no source file in the current directory, and then       *)
(* transforms nothing.                                                     *)
(***************************************************************************)
C7_MissingFilesAreSkipped ==
    main_pc = "returned" =>
        /\ status = <<1>> <=> (argv = <<>> /\ {f \in files : EndsWith(f, TexSuffix)} = {})
        /\ status = <<1>> => stdout = <<>> /\ written = {}
        /\ argv # <<>> =>
               /\ status = <<0>>
               /\ stdout = ExpectedWrote(Len(argv))
               /\ [k \in 1..Len(stderr) |-> stderr[k].path] = ExpectedSkipped(Len(argv))
               /\ \A k \in 1..Len(stderr) : stderr[k].msg = "Skipping missing"

\* main has returned 0 after a missing argument followed by one that exists
C7_Witness ==
    /\ main_pc = "returned"
    /\ Len(argv) >= 2
    /\ argv[1] \notin files
    /\ argv[2] \in files
    /\ Len(stderr) >= 1
    /\ Len(stdout) >= 1
    /\ status = <<0>>

(***************************************************************************)
(* C8.  slugify is idempotent: slugify(slugify(x)) = slugify(x), also when *)
(* x is empty or has no alphanumeric character and the result is the       *)
(* fallback token.                                                         *)
(***************************************************************************)
C8_SlugifyIdempotent == Len(slugs) = 3 => slugs[3] = slugs[2]

\* slugify applied twice to a title of punctuation alone
C8_Witness ==
    /\ Len(slugs) = 3
    /\ slugs[1] = <<"!", "-">>
    /\ slugs[2] = SlugFallback

=============================================================================
